---- MODULE Spec2Model ----
(***************************************************************************)
(* Model of beets-mpd-utils: the MPD playback tracker of                   *)
(* src/src/beetsplug/mpd_tracker.py (Song.now_playing, the MPDEvents       *)
(* waiters, Tracker.track / run / set_position / play_time / status and    *)
(* the plugin loop MPDTracker.run), together with the MPD player it        *)
(* observes and the wall clock.                                            *)
(*                                                                         *)
(* Time is counted in whole seconds.  MPD is the environment: its player   *)
(* state, current song and elapsed position change by user commands and    *)
(* by the passage of time, and every change of the player raises a         *)
(* "player" idle notification for the waiters subscribed at that moment.   *)
(*                                                                         *)
(* The beets library is the store the loop writes its verdicts to: the     *)
(* flexible attributes play_count, skip_count and last_played of the items *)
(* and last_played of the albums (MPDTracker.set_played / set_skipped).    *)
(***************************************************************************)
EXTENDS Integers, Sequences, FiniteSets, TLC

VARIABLES
    now,             \* time.time(), in seconds
    mpd_state,       \* MPD status()["state"]
    mpd_song,        \* MPD currentsong()
    mpd_elapsed,     \* MPD status()["elapsed"]
    ops,             \* number of player commands issued to MPD so far
    pc,              \* position of the plugin loop / Tracker.run
    branch,          \* which branch of Tracker.run is racing its waiters
    pending,         \* a player notification is queued for the subscribed waiters
    cursor,          \* next read of the current notification round, 0 = waiters idle
    wv,              \* per waiter: elapsed of the status reply it holds, -1 = none
    done,            \* the waiter tasks that have returned
    clean,           \* no MPD change and no clock tick since the round began
    song,            \* Tracker.song
    history,         \* Tracker.history
    play_from_pos,   \* Tracker.play_from_pos
    play_from_time,  \* Tracker.play_from_time
    expected_end,    \* Tracker.expected_end
    event,           \* the event Tracker.run dispatched last
    verdict,         \* what Tracker.status() returned for the ended session
    trk_play_threshold,  \* Tracker.play_threshold, in hundredths of a second
    trk_skip_threshold,  \* Tracker.skip_threshold, in hundredths of a second
    pt_input,        \* play_time(): the list as it was appended
    pt_total,        \* play_time(): the value returned
    pt_appended,     \* play_time(): the intervals appended after the first call
    beet,            \* Song.beet: the library item of the current song
    album_of,        \* library: the album of each item
    play_count,      \* library: item["play_count"]
    skip_count,      \* library: item["skip_count"]
    last_played,     \* library: item["last_played"]
    album_last_played,  \* library: album["last_played"]
    sessions,        \* iterations of the loop of MPDTracker.run begun so far
    increments,      \* counter increments stored since the current iteration began
    mpd_duration,    \* MPD currentsong()["duration"], or NoDuration
    mpd_has_elapsed, \* MPD status() of a loaded song carries "elapsed"
    queue,           \* MPD playlist(): the files of the queue
    queue_pos,       \* MPD status()["song"]: index of the current entry
    mpd_random,      \* MPD random mode
    opts_items,      \* dj: opts.items, the number of items to maintain
    opts_album,      \* dj: opts.album
    status_song,     \* dj: int(status.get("song", 0)) of the status reply held
    status_length,   \* dj: int(status["playlistlength"]) of the status reply held
    upcoming_items,  \* dj: what count_items returned in this cycle
    to_queue,        \* dj: the uris given to mpd_queue.add in this cycle
    commands,        \* dj: the MPD commands issued since the last notification
    lib_queries,     \* dj: the library queries made since the last notification
    db_source,       \* debounce: the items the source yields, in order
    db_delay,        \* debounce: delay, in seconds
    db_read_at,      \* debounce: the time each item was read from the source
    db_task,         \* debounce: the timer task: "none", "pending"
    db_value,        \* debounce: the item the timer task holds
    db_yielded_last, \* debounce: yielded_last
    db_out,          \* debounce: the <<item, time>> pairs yielded so far
    dict_1,          \* changes: the first map
    dict_2,          \* changes: the second map
    ch_printed,      \* changes: the lines printed, as <<key, old, new>>
    ch_result        \* changes: the value returned

vars == <<now, mpd_state, mpd_song, mpd_elapsed, ops, pc, branch, pending, cursor,
          wv, done, clean, song, history, play_from_pos, play_from_time,
          expected_end, event, verdict, trk_play_threshold, trk_skip_threshold,
          pt_input, pt_total, pt_appended, beet, album_of, play_count, skip_count,
          last_played, album_last_played, sessions, increments, mpd_duration,
          mpd_has_elapsed, queue, queue_pos, mpd_random, opts_items, opts_album,
          status_song, status_length, upcoming_items, to_queue, commands,
          lib_queries, db_source, db_delay, db_read_at, db_task, db_value,
          db_yielded_last, db_out, dict_1, dict_2, ch_printed, ch_result>>

trackerVars == <<song, history, play_from_pos, play_from_time, expected_end>>
mpdVars == <<now, mpd_state, mpd_song, mpd_elapsed, ops>>
raceVars == <<branch, pending, cursor, wv, done, clean>>
thresholdVars == <<trk_play_threshold, trk_skip_threshold>>
ptVars == <<pt_input, pt_total, pt_appended>>
storeVars == <<play_count, skip_count, last_played, album_last_played>>
sinkVars == <<beet, album_of, storeVars, sessions, increments>>
recordVars == <<mpd_duration, mpd_has_elapsed>>
dbVars == <<db_source, db_delay, db_read_at, db_task, db_value, db_yielded_last, db_out>>
chVars == <<dict_1, dict_2, ch_printed, ch_result>>
utilVars == <<dbVars, chVars>>
queueVars == <<queue, queue_pos, mpd_random>>
djVars == <<queueVars, opts_items, opts_album, status_song, status_length,
            upcoming_items, to_queue, commands, lib_queries>>

----------------------------------------------------------------------------
(* Bounds of the model *)

StartTime == 2      \* wall-clock reading when the plugin starts
Horizon == 3        \* seconds of wall-clock time explored
MaxOps == 3         \* player commands MPD receives
Duration == 3       \* song["duration"] of the songs in the queue
NSongs == 2         \* distinct songs in the queue
MaxLen == 3         \* intervals in a list given to play_time
MaxCoord == 3       \* largest interval bound given to play_time
MaxThreshold == 3   \* largest threshold, in seconds, given to status
NItems == 2         \* items in the library
NAlbums == 1        \* albums in the library
MaxSessions == 3    \* iterations of the loop of MPDTracker.run

MaxTime == StartTime + Horizon
Songs == 1..NSongs
Items == 1..NItems
Albums == 1..NAlbums

(* Program constants *)

Tol == 1                    \* the 1 second of seek_to / replay / stop / playlist_end
play_time_cfg == 240        \* config play_time
play_percent_cfg == 50      \* config play_percent, in hundredths
skip_time_cfg == 20         \* config skip_time
skip_percent_cfg == 0       \* config skip_percent, in hundredths

NoDuration == -1            \* a song record without "duration"
NoElapsed == -2             \* a status reply without "elapsed"

Abs(x) == IF x < 0 THEN -x ELSE x
Min(a, b) == IF a <= b THEN a ELSE b
Max(a, b) == IF a >= b THEN a ELSE b

----------------------------------------------------------------------------
(* Tracker.play_time *)

\* list.sort(key=lambda x: x[0]): a stable sort by interval start
RECURSIVE InsertByStart(_, _)
InsertByStart(sorted, iv) ==
    IF sorted = <<>> THEN <<iv>>
    ELSE IF Head(sorted)[1] <= iv[1]
         THEN <<Head(sorted)>> \o InsertByStart(Tail(sorted), iv)
         ELSE <<iv>> \o sorted

RECURSIVE SortFrom(_, _)
SortFrom(sorted, rest) ==
    IF rest = <<>> THEN sorted
    ELSE SortFrom(InsertByStart(sorted, Head(rest)), Tail(rest))

\* a play_time that forgets to sort
NoSort(h) == h

SortByStart(h) == SortFrom(<<>>, h)

\* a sweep that forgets max() when it extends the current run
RECURSIVE SweepNoMax(_, _, _, _)
SweepNoMax(rest, current_start, current_end, total) ==
    IF rest = <<>> THEN total + current_end - current_start
    ELSE LET start == Head(rest)[1]
             end == Head(rest)[2]
         IN  IF start <= current_end
             THEN SweepNoMax(Tail(rest), current_start, end, total)
             ELSE SweepNoMax(Tail(rest), start, end, total + current_end - current_start)

\* the for loop of play_time over history[1:], and the final flush
RECURSIVE Sweep(_, _, _, _)
Sweep(rest, current_start, current_end, total) ==
    IF rest = <<>> THEN total + current_end - current_start
    ELSE LET start == Head(rest)[1]
             end == Head(rest)[2]
         IN  IF start <= current_end
             THEN Sweep(Tail(rest), current_start, Max(current_end, end), total)
             ELSE Sweep(Tail(rest), start, end, total + current_end - current_start)

\* a play_time that adds up the lengths without merging what overlaps
RECURSIVE SumLengths(_)
SumLengths(sorted) ==
    IF sorted = <<>> THEN 0
    ELSE sorted[1][2] - sorted[1][1] + SumLengths(Tail(sorted))

MergeSorted(sorted) == Sweep(Tail(sorted), sorted[1][1], sorted[1][2], 0)

play_time(h) ==
    IF h = <<>> THEN 0
    ELSE MergeSorted(SortByStart(h))

----------------------------------------------------------------------------
(* Tracker.track thresholds and Tracker.status; thresholds in hundredths of a second *)

play_threshold(play_time_arg, play_percent_arg) ==
    Min(play_time_arg * 100, Duration * play_percent_arg)

skip_threshold(skip_time_arg, skip_percent_arg) ==
    Max(skip_time_arg * 100, Duration * skip_percent_arg)

\* MPDTracker.run passes config["skip_time"] for both skip_time and skip_percent
run_play_threshold == play_threshold(play_time_cfg, play_percent_cfg)
run_skip_threshold == skip_threshold(skip_time_cfg, skip_time_cfg * 100)

\* Tracker.status with its comparisons made inclusive
status_inclusive(h) ==
    LET pt == play_time(h)
    IN  IF pt = 0 THEN "neither"
        ELSE IF trk_play_threshold <= pt * 100 THEN "played"
        ELSE IF pt * 100 <= trk_skip_threshold THEN "skipped"
        ELSE "neither"

status(h) ==
    LET pt == play_time(h)
    IN  IF pt = 0 THEN "neither"
        ELSE IF trk_play_threshold < pt * 100 THEN "played"
        ELSE IF pt * 100 < trk_skip_threshold THEN "skipped"
        ELSE "neither"

----------------------------------------------------------------------------
(* The waiters of MPDEvents *)

Waiters == {"play", "pause", "seek", "replay", "new_song", "stop", "playlist_end"}

\* the tasks in the order Tracker.run creates them
PlayOrder == <<"pause", "seek", "replay", "new_song", "stop", "playlist_end">>
PauseOrder == <<"play", "new_song", "stop">>
Order(b) == IF b = "play" THEN PlayOrder ELSE PauseOrder

\* waiters that await currentsong() after a status reply with state play
NeedsSong == {"play", "seek", "replay", "new_song"}

\* the expected_end argument each waiter was created with
ExpEndArg(b) == IF b = "play" THEN expected_end ELSE 0

NoValues == [w \in Waiters |-> -1]

WaiterAt(b, c) ==
    LET L == Len(Order(b)) IN Order(b)[IF c <= L THEN c ELSE c - L]

\* reads still to be made in this round after read c: the status replies of the
\* remaining waiters, then the currentsong replies of those that asked for one
ReadsAfter(b, c, values, finished) ==
    LET L == Len(Order(b))
    IN  { d \in (c + 1)..(2 * L) :
            LET w == WaiterAt(b, d)
            IN  /\ w \notin finished
                /\ (d > L => (w \in NeedsSong /\ values[w] # -1)) }

NextCursor(b, c, values, finished) ==
    LET S == ReadsAfter(b, c, values, finished)
    IN  IF S = {} THEN 0 ELSE CHOOSE d \in S : \A e \in S : d <= e

\* the condition a waiter tests on its status reply alone
SeekCond(t, ee) == Tol < Abs(t - ee)
ReplayCond(t, ee) == Abs(t - ee) < Tol
StopCond(t, ee) == Tol < Abs(t - ee)
PlaylistEndCond(t, ee) == Abs(t - ee) < Tol

\* one waiter's test of the status reply it received
pause_at_returns == mpd_state = "pause"
stop_returns(ee) == mpd_state = "stop" /\ StopCond(now, ee)
playlist_end_returns(ee) == mpd_state = "stop" /\ PlaylistEndCond(now, ee)
asks_currentsong == mpd_state = "play"

\* one waiter's test of the currentsong reply, with the clock read at that moment
play_from_returns == song = mpd_song
seek_to_returns(ee) == song = mpd_song /\ SeekCond(now, ee)
replay_returns(ee) == song = mpd_song /\ ReplayCond(now, ee)
new_song_returns == song # mpd_song

----------------------------------------------------------------------------
(* MPD and the wall clock *)

Subscribed == pc \in {"wait", "np_wait"}

\* a change of the player: idle(["player"]) yields for whoever is subscribed
Notify ==
    /\ pending' = Subscribed
    /\ clean' = FALSE

Command ==
    /\ ops < MaxOps
    /\ ops' = ops + 1
    /\ pc # "crashed"

Tick ==
    /\ now < MaxTime
    /\ pc # "crashed"
    /\ mpd_state = "play" => mpd_elapsed < Duration
    /\ now' = now + 1
    /\ mpd_elapsed' = IF mpd_state = "play" THEN mpd_elapsed + 1 ELSE mpd_elapsed
    /\ clean' = FALSE
    /\ UNCHANGED <<mpd_state, mpd_song, ops, pc, branch, pending, cursor, wv, done,
                   trackerVars, event, verdict, ptVars,
                   thresholdVars, recordVars, utilVars, djVars, sinkVars>>

UserPause ==
    /\ Command
    /\ mpd_state = "play"
    /\ mpd_state' = "pause"
    /\ Notify
    /\ UNCHANGED <<now, mpd_song, mpd_elapsed, pc, branch, cursor, wv, done,
                   trackerVars, event, verdict, ptVars,
                   thresholdVars, recordVars, utilVars, djVars, sinkVars>>

UserResume ==
    /\ Command
    /\ mpd_state = "pause"
    /\ mpd_state' = "play"
    /\ Notify
    /\ UNCHANGED <<now, mpd_song, mpd_elapsed, pc, branch, cursor, wv, done,
                   trackerVars, event, verdict, ptVars,
                   thresholdVars, recordVars, utilVars, djVars, sinkVars>>

UserStop ==
    /\ Command
    /\ mpd_state # "stop"
    /\ mpd_state' = "stop"
    /\ mpd_elapsed' = 0
    /\ Notify
    /\ UNCHANGED <<now, mpd_song, pc, branch, cursor, wv, done,
                   trackerVars, event, verdict, ptVars,
                   thresholdVars, recordVars, utilVars, djVars, sinkVars>>

\* play a song of the queue from its start: play, next, previous, or the same song again
UserPlay ==
    /\ Command
    /\ \E s \in Songs :
        /\ mpd_state' = "play"
        /\ mpd_song' = s
        /\ mpd_elapsed' = 0
    /\ Notify
    /\ UNCHANGED <<now, pc, branch, cursor, wv, done,
                   trackerVars, event, verdict, ptVars,
                   thresholdVars, recordVars, utilVars, djVars, sinkVars>>

UserSeek ==
    /\ Command
    /\ mpd_state \in {"play", "pause"}
    /\ \E p \in 0..(Duration - 1) :
        /\ p # mpd_elapsed
        /\ mpd_elapsed' = p
    /\ Notify
    /\ UNCHANGED <<now, mpd_state, mpd_song, pc, branch, cursor, wv, done,
                   trackerVars, event, verdict, ptVars,
                   thresholdVars, recordVars, utilVars, djVars, sinkVars>>

\* the song reaches its end: the queue advances, repeats the song, or ends
SongEnd ==
    /\ pc # "crashed"
    /\ mpd_state = "play"
    /\ mpd_elapsed = Duration
    /\ \/ /\ mpd_state' = "stop"
          /\ mpd_song' = mpd_song
       \/ /\ mpd_state' = "play"
          /\ mpd_song' \in Songs
    /\ mpd_elapsed' = 0
    /\ Notify
    /\ UNCHANGED <<now, ops, pc, branch, cursor, wv, done,
                   trackerVars, event, verdict, ptVars,
                   thresholdVars, recordVars, utilVars, djVars, sinkVars>>

----------------------------------------------------------------------------
(* Song.now_playing *)

RaceIdle ==
    /\ branch' = "none"
    /\ pending' = FALSE
    /\ cursor' = 0
    /\ wv' = NoValues
    /\ done' = {}
    /\ clean' = FALSE

\* a status read that lets now_playing go on whatever the state
NowPlayingStatusAnyState ==
    /\ pc = "now_playing"
    /\ pc' = "np_song"
    /\ UNCHANGED <<mpdVars, raceVars, trackerVars, event, verdict, ptVars,
                   thresholdVars, recordVars, utilVars, djVars, sinkVars>>

\* while (await client.status()).get("state") == "stop": wait on idle
NowPlayingStatus ==
    /\ pc = "now_playing"
    /\ pc' = IF mpd_state = "stop" THEN "np_wait" ELSE "np_song"
    /\ UNCHANGED <<mpdVars, raceVars, trackerVars, event, verdict, ptVars,
                   thresholdVars, recordVars, utilVars, djVars, sinkVars>>

\* async for _ in client.idle(["player"]): break
NowPlayingWake ==
    /\ pc = "np_wait"
    /\ pending
    /\ pending' = FALSE
    /\ pc' = "now_playing"
    /\ UNCHANGED <<mpdVars, branch, cursor, wv, done, clean, trackerVars, event,
                   verdict, ptVars,
                   thresholdVars, recordVars, utilVars, djVars, sinkVars>>

\* self.mpd = await client.currentsong()
NowPlayingSong ==
    /\ pc = "np_song"
    /\ song' = mpd_song
    /\ pc' = "track"
    /\ UNCHANGED <<mpdVars, raceVars, history, play_from_pos, play_from_time,
                   expected_end, event, verdict, ptVars,
                   thresholdVars, recordVars, utilVars, djVars, sinkVars>>

----------------------------------------------------------------------------
(* Tracker *)

\* an expected end that takes the song to start at the beginning
set_position_from_start(position) ==
    /\ play_from_pos' = position
    /\ play_from_time' = now
    /\ expected_end' = now + Duration

set_position(position) ==
    /\ play_from_pos' = position
    /\ play_from_time' = now
    /\ expected_end' = now + Duration - position

\* play_from_pos + time.time() - play_from_time
PlayedToNow == play_from_pos + now - play_from_time

\* status["elapsed"] as a waiter finds it in its status reply
ElapsedField == IF mpd_has_elapsed THEN mpd_elapsed ELSE NoElapsed

\* elapsed = float(status.get("elapsed", 0)): a stopped MPD reports no elapsed
StatusElapsed == IF mpd_state = "stop" \/ ~mpd_has_elapsed THEN 0 ELSE mpd_elapsed

\* float(self.song["duration"]) of a record without duration: KeyError, which
\* neither Tracker.track nor MPDTracker.run catches
TrackFails ==
    /\ pc = "track"
    /\ mpd_duration = NoDuration
    /\ pc' = "crashed"
    /\ event' = "KeyError"
    /\ UNCHANGED <<mpdVars, raceVars, trackerVars, verdict, thresholdVars, ptVars,
                   sinkVars, recordVars, utilVars, djVars>>

\* a construction that never seeds the history
TrackNoSeed ==
    /\ pc = "track"
    /\ mpd_duration # NoDuration
    /\ history' = <<>>
    /\ trk_play_threshold' = run_play_threshold
    /\ trk_skip_threshold' = run_skip_threshold
    /\ set_position(StatusElapsed)
    /\ event' = "none"
    /\ verdict' = "none"
    /\ pc' = "run"
    /\ UNCHANGED <<mpdVars, raceVars, song, ptVars, sinkVars, recordVars, utilVars, djVars>>

Track ==
    /\ pc = "track"
    /\ mpd_duration # NoDuration
    /\ history' = IF StatusElapsed # 0 THEN << <<0, StatusElapsed>> >> ELSE <<>>
    /\ trk_play_threshold' = run_play_threshold
    /\ trk_skip_threshold' = run_skip_threshold
    /\ set_position(StatusElapsed)
    /\ event' = "none"
    /\ verdict' = "none"
    /\ pc' = "run"
    /\ UNCHANGED <<mpdVars, raceVars, song, ptVars, sinkVars, recordVars, utilVars, djVars>>

\* status = await self.client.status() at the top of the loop of Tracker.run
RunPoll ==
    /\ pc = "run"
    /\ \/ /\ mpd_state \in {"play", "pause"}
          /\ pc' = "wait"
          /\ branch' = mpd_state
          /\ UNCHANGED <<pending, cursor, wv, done, clean, event>>
       \/ /\ mpd_state = "stop"
          /\ pc' = "ended"
          /\ event' = "poll_stop"
          /\ UNCHANGED raceVars
    /\ UNCHANGED <<mpdVars, trackerVars, verdict, ptVars,
                   thresholdVars, recordVars, utilVars, djVars, sinkVars>>

\* the waiters wake on the queued notification and send their status commands
WaitersWake ==
    /\ pc = "wait"
    /\ cursor = 0
    /\ done = {}
    /\ pending
    /\ pending' = FALSE
    /\ clean' = TRUE
    /\ cursor' = NextCursor(branch, 0, wv, done)
    /\ UNCHANGED <<mpdVars, pc, branch, wv, done, trackerVars, event, verdict, ptVars,
                   thresholdVars, recordVars, utilVars, djVars, sinkVars>>

\* the next reply of the round reaches its waiter, which tests it
WaiterRead ==
    /\ pc = "wait"
    /\ cursor # 0
    /\ LET w == WaiterAt(branch, cursor)
           ee == ExpEndArg(branch)
           onStatus == cursor <= Len(Order(branch))
           returns ==
               IF onStatus
               THEN CASE w = "pause" -> pause_at_returns
                      [] w = "stop" -> stop_returns(ee)
                      [] w = "playlist_end" -> playlist_end_returns(ee)
                      [] OTHER -> FALSE
               ELSE CASE w = "play" -> play_from_returns
                      [] w = "seek" -> seek_to_returns(ee)
                      [] w = "replay" -> replay_returns(ee)
                      [] w = "new_song" -> new_song_returns
                      [] OTHER -> FALSE
           value ==
               IF onStatus
               THEN IF w = "pause" /\ returns THEN ElapsedField
                    ELSE IF w \in NeedsSong /\ asks_currentsong
                         THEN (IF w \in {"play", "seek"} THEN ElapsedField ELSE 0)
                         ELSE -1
               ELSE IF returns /\ w \in {"play", "seek"} THEN wv[w] ELSE -1
       IN  /\ wv' = [wv EXCEPT ![w] = value]
           /\ done' = IF returns THEN done \cup {w} ELSE done
           /\ cursor' = NextCursor(branch, cursor, wv', done')
    /\ UNCHANGED <<mpdVars, pc, branch, pending, clean, trackerVars, event, verdict,
                   ptVars,
                   thresholdVars, recordVars, utilVars, djVars, sinkVars>>

\* asyncio.wait(..., FIRST_COMPLETED) has returned with exactly one task done
Returned(b, w) ==
    /\ pc = "wait"
    /\ branch = b
    /\ done = {w}

Continue(e) ==
    /\ pc' = "run"
    /\ event' = e
    /\ RaceIdle
    /\ UNCHANGED <<mpdVars, song, verdict, ptVars,
                   thresholdVars, recordVars, utilVars, djVars, sinkVars>>

Break(e) ==
    /\ pc' = "ended"
    /\ event' = e
    /\ RaceIdle
    /\ UNCHANGED <<mpdVars, song, verdict, ptVars,
                   thresholdVars, recordVars, utilVars, djVars, sinkVars>>

\* pause.result() / seek.result() / play.result() of a waiter that found no
\* elapsed in its status reply: NoElapsedError, which nothing catches
ResultRaises ==
    /\ pc = "wait"
    /\ \E w \in {"pause", "seek", "play"} :
        /\ done = {w}
        /\ wv[w] = NoElapsed
    /\ pc' = "crashed"
    /\ event' = "NoElapsedError"
    /\ RaceIdle
    /\ UNCHANGED <<mpdVars, trackerVars, verdict, thresholdVars, ptVars, sinkVars,
                   recordVars, utilVars, djVars>>

OnPause ==
    /\ Returned("play", "pause")
    /\ wv["pause"] # NoElapsed
    /\ history' = Append(history, <<play_from_pos, wv["pause"]>>)
    /\ UNCHANGED <<play_from_pos, play_from_time, expected_end>>
    /\ Continue("pause")

\* a seek that moves the position first and appends afterwards
OnSeekPositionFirst ==
    /\ Returned("play", "seek")
    /\ wv["seek"] # NoElapsed
    /\ history' = Append(history, <<wv["seek"], wv["seek"] + now - now>>)
    /\ set_position(wv["seek"])
    /\ Continue("seek")

OnSeek ==
    /\ Returned("play", "seek")
    /\ wv["seek"] # NoElapsed
    /\ history' = Append(history, <<play_from_pos, PlayedToNow>>)
    /\ set_position(wv["seek"])
    /\ Continue("seek")

\* a replay that resets the session in place and goes on tracking
OnReplayInPlace ==
    /\ Returned("play", "replay")
    /\ history' = Append(history, <<play_from_pos, Duration>>)
    /\ set_position(0)
    /\ Continue("replay")

OnReplay ==
    /\ Returned("play", "replay")
    /\ history' = Append(history, <<play_from_pos, Duration>>)
    /\ UNCHANGED <<play_from_pos, play_from_time, expected_end>>
    /\ Break("replay")

OnNewSong ==
    /\ Returned("play", "new_song")
    /\ history' = Append(history, <<play_from_pos, PlayedToNow>>)
    /\ UNCHANGED <<play_from_pos, play_from_time, expected_end>>
    /\ Break("new_song")

OnStop ==
    /\ Returned("play", "stop")
    /\ history' = <<>>
    /\ UNCHANGED <<play_from_pos, play_from_time, expected_end>>
    /\ Break("stop")

\* a playlist_end handler that clears the history as the stop handler does
OnPlaylistEndClears ==
    /\ Returned("play", "playlist_end")
    /\ history' = <<>>
    /\ UNCHANGED <<play_from_pos, play_from_time, expected_end>>
    /\ Break("playlist_end")

OnPlaylistEnd ==
    /\ Returned("play", "playlist_end")
    /\ history' = Append(history, <<play_from_pos, Duration>>)
    /\ UNCHANGED <<play_from_pos, play_from_time, expected_end>>
    /\ Break("playlist_end")

OnPlay ==
    /\ Returned("pause", "play")
    /\ wv["play"] # NoElapsed
    /\ set_position(wv["play"])
    /\ UNCHANGED history
    /\ Continue("play")

OnPausedNewSong ==
    /\ Returned("pause", "new_song")
    /\ history' = Append(history, <<play_from_pos, PlayedToNow>>)
    /\ UNCHANGED <<play_from_pos, play_from_time, expected_end>>
    /\ Break("new_song")

OnPausedStop ==
    /\ Returned("pause", "stop")
    /\ history' = <<>>
    /\ UNCHANGED <<play_from_pos, play_from_time, expected_end>>
    /\ Break("stop")

\* [done], pending = await asyncio.wait(...) with two or more tasks done: ValueError
UnpackFails ==
    /\ pc = "wait"
    /\ Cardinality(done) > 1
    /\ pc' = "crashed"
    /\ event' = "ValueError"
    /\ RaceIdle
    /\ UNCHANGED <<mpdVars, trackerVars, verdict, ptVars,
                   thresholdVars, recordVars, utilVars, djVars, sinkVars>>

\* playback_status = tracker.status(); play_time sorts the history in place
Status ==
    /\ pc = "ended"
    /\ verdict' = status(history)
    /\ history' = SortByStart(history)
    /\ pc' = "verdict"
    /\ UNCHANGED <<mpdVars, raceVars, song, play_from_pos, play_from_time,
                   expected_end, event, ptVars,
                   thresholdVars, recordVars, utilVars, djVars, sinkVars>>

\* the while True of MPDTracker.run
NextSong ==
    /\ pc = "verdict"
    /\ pc' = "now_playing"
    /\ song' = 0
    /\ history' = <<>>
    /\ play_from_pos' = 0
    /\ play_from_time' = 0
    /\ expected_end' = 0
    /\ trk_play_threshold' = 0
    /\ trk_skip_threshold' = 0
    /\ event' = "none"
    /\ verdict' = "none"
    /\ UNCHANGED <<mpdVars, raceVars, ptVars, sinkVars, recordVars, utilVars, djVars>>

----------------------------------------------------------------------------
(* The library and the verdict sink: Song.now_playing's lookup, set_played, *)
(* set_skipped and the dispatch of MPDTracker.run                          *)

NoItem == 0         \* lib.items(query).get() found nothing: None
NoAlbum == 0        \* item.get_album() of a singleton: None
Absent == -1        \* a flexible attribute that was never set: None

\* the files MPD can play; the last one has no item in the library
Paths == 1..(NItems + 1)

\* lib.items(library.PathQuery("path", ...)).get()
Lookup(p) == IF p \in Items THEN p ELSE NoItem

\* item.get(key, default)
GetOr(v, default) == IF v = Absent THEN default ELSE v

\* album.items()
Members(a) == { i \in Items : album_of[i] = a }

\* the truth value all() gives a last_played: None and 0 are false
Truthy(v) == v # Absent /\ v # 0

\* a rollup that takes the newest member instead of the oldest
MaxOf(S) == CHOOSE m \in S : \A x \in S : x <= m

\* min(songs_last_played_at)
MinOf(S) == CHOOSE m \in S : \A x \in S : m <= x

RECURSIVE Total(_, _)
Total(count, S) ==
    IF S = {} THEN 0
    ELSE LET i == CHOOSE x \in S : TRUE
         IN  GetOr(count[i], 0) + Total(count, S \ {i})

\* the sum of every play_count and skip_count of the library
Stored(plays, skips) == Total(plays, Items) + Total(skips, Items)

\* a set_played that counts an absent play_count as 1
set_played_from_one(item) ==
    /\ play_count' = [play_count EXCEPT ![item] = GetOr(@, 1) + 1]
    /\ last_played' = [last_played EXCEPT ![item] = now]
    /\ LET album == album_of[item]
           songs_last_played_at == { last_played'[i] : i \in Members(album) }
       IN  album_last_played' =
               IF album # NoAlbum /\ \A v \in songs_last_played_at : Truthy(v)
               THEN [album_last_played EXCEPT ![album] = MinOf(songs_last_played_at)]
               ELSE album_last_played
    /\ UNCHANGED skip_count

set_played(item) ==
    /\ play_count' = [play_count EXCEPT ![item] = GetOr(@, 0) + 1]
    /\ last_played' = [last_played EXCEPT ![item] = now]
    /\ LET album == album_of[item]
           songs_last_played_at == { last_played'[i] : i \in Members(album) }
       IN  album_last_played' =
               IF album # NoAlbum /\ \A v \in songs_last_played_at : Truthy(v)
               THEN [album_last_played EXCEPT ![album] = MinOf(songs_last_played_at)]
               ELSE album_last_played
    /\ UNCHANGED skip_count

\* a set_skipped that also stamps last_played
set_skipped_stamps(item) ==
    /\ skip_count' = [skip_count EXCEPT ![item] = GetOr(@, 0) + 1]
    /\ last_played' = [last_played EXCEPT ![item] = now]
    /\ UNCHANGED <<play_count, album_last_played>>

\* a set_skipped that counts the skip as a play as well
set_skipped_and_played(item) ==
    /\ skip_count' = [skip_count EXCEPT ![item] = GetOr(@, 0) + 1]
    /\ play_count' = [play_count EXCEPT ![item] = GetOr(@, 0) + 1]
    /\ UNCHANGED <<last_played, album_last_played>>

set_skipped(item) ==
    /\ skip_count' = [skip_count EXCEPT ![item] = GetOr(@, 0) + 1]
    /\ UNCHANGED <<play_count, last_played, album_last_played>>

\* the beets half of Song.now_playing: MPD has a song loaded, look its file up
LibraryLookup ==
    /\ pc = "now_playing"
    /\ sessions < MaxSessions
    /\ \E p \in Paths :
        /\ mpd_song' = p
        /\ song' = p
        /\ beet' = Lookup(p)
    /\ sessions' = sessions + 1
    /\ increments' = 0
    /\ event' = "none"
    /\ pc' = "track"
    /\ UNCHANGED <<now, mpd_state, mpd_elapsed, ops, raceVars, history, play_from_pos,
                   play_from_time, expected_end, verdict, thresholdVars, recordVars,
                   utilVars, djVars, ptVars, album_of, storeVars>>

\* tracker = await Tracker.track(...); playback_status = tracker.status():
\* the session takes its time and ends with one of the three verdicts
TrackReturns ==
    /\ pc = "track"
    /\ \E d \in 0..1 :
        /\ now + d <= MaxTime
        /\ now' = now + d
    /\ verdict' \in {"played", "skipped", "neither"}
    /\ pc' = "verdict"
    /\ UNCHANGED <<mpd_state, mpd_song, mpd_elapsed, ops, raceVars, trackerVars, event,
                   thresholdVars, recordVars, utilVars, djVars, ptVars, sinkVars>>

\* the loop of MPDTracker.run goes round
Applied(e) ==
    /\ pc' = "now_playing"
    /\ event' = e
    /\ verdict' = "none"
    /\ increments' = increments + Stored(play_count', skip_count')
                                - Stored(play_count, skip_count)
    /\ UNCHANGED <<mpdVars, raceVars, trackerVars, thresholdVars, recordVars,
                   utilVars, djVars, ptVars, beet, album_of, sessions>>

\* if playback_status == "played": self.set_played(song.beet)
ApplyPlayed ==
    /\ pc = "verdict"
    /\ verdict = "played"
    /\ beet # NoItem
    /\ set_played(beet)
    /\ Applied("set_played")

\* elif playback_status == "skipped": self.set_skipped(song.beet)
ApplySkipped ==
    /\ pc = "verdict"
    /\ verdict = "skipped"
    /\ beet # NoItem
    /\ set_skipped(beet)
    /\ Applied("set_skipped")

\* a dispatch that counts a skip for the verdict neither
ApplyNeitherCounts ==
    /\ pc = "verdict"
    /\ verdict = "neither"
    /\ IF beet # NoItem THEN set_skipped(beet) ELSE UNCHANGED storeVars
    /\ Applied("neither")

\* neither branch of the dispatch is taken
ApplyNeither ==
    /\ pc = "verdict"
    /\ verdict = "neither"
    /\ UNCHANGED storeVars
    /\ Applied("neither")

\* set_played(None) / set_skipped(None): item.get raises AttributeError, which
\* nothing in MPDTracker.run catches
ApplyFails ==
    /\ pc = "verdict"
    /\ verdict \in {"played", "skipped"}
    /\ beet = NoItem
    /\ pc' = "crashed"
    /\ event' = "AttributeError"
    /\ UNCHANGED <<mpdVars, raceVars, trackerVars, verdict, thresholdVars, recordVars, utilVars,
                   djVars, ptVars,
                   sinkVars>>

----------------------------------------------------------------------------

Init ==
    /\ now = StartTime
    /\ mpd_state \in {"play", "pause", "stop"}
    /\ mpd_song = 1
    /\ mpd_elapsed \in 0..Duration
    /\ mpd_state = "stop" => mpd_elapsed = 0
    /\ ops = 0
    /\ pc = "now_playing"
    /\ branch = "none"
    /\ pending = FALSE
    /\ cursor = 0
    /\ wv = NoValues
    /\ done = {}
    /\ clean = FALSE
    /\ song = 0
    /\ history = <<>>
    /\ play_from_pos = 0
    /\ play_from_time = 0
    /\ expected_end = 0
    /\ event = "none"
    /\ verdict = "none"
    /\ trk_play_threshold = 0
    /\ trk_skip_threshold = 0
    /\ pt_input = <<>>
    /\ pt_total = 0
    /\ pt_appended = <<>>
    /\ beet = NoItem
    /\ album_of = [i \in Items |-> NoAlbum]
    /\ play_count = [i \in Items |-> Absent]
    /\ skip_count = [i \in Items |-> Absent]
    /\ last_played = [i \in Items |-> Absent]
    /\ album_last_played = [a \in Albums |-> Absent]
    /\ sessions = 0
    /\ increments = 0
    /\ mpd_duration = Duration
    /\ mpd_has_elapsed = TRUE
    /\ queue = <<>>
    /\ queue_pos = 0
    /\ mpd_random = 0
    /\ opts_items = 0
    /\ opts_album = FALSE
    /\ status_song = 0
    /\ status_length = 0
    /\ upcoming_items = {}
    /\ to_queue = <<>>
    /\ commands = <<>>
    /\ lib_queries = <<>>
    /\ db_source = <<>>
    /\ db_delay = 0
    /\ db_read_at = <<>>
    /\ db_task = "none"
    /\ db_value = 0
    /\ db_yielded_last = TRUE
    /\ db_out = <<>>
    /\ dict_1 = <<>>
    /\ dict_2 = <<>>
    /\ ch_printed = {}
    /\ ch_result = FALSE

Next ==
    \/ Tick
    \/ UserPause
    \/ UserResume
    \/ UserStop
    \/ UserPlay
    \/ UserSeek
    \/ SongEnd
    \/ NowPlayingStatus
    \/ NowPlayingWake
    \/ NowPlayingSong
    \/ Track
    \/ RunPoll
    \/ WaitersWake
    \/ WaiterRead
    \/ OnPause
    \/ OnSeek
    \/ OnReplay
    \/ OnNewSong
    \/ OnStop
    \/ OnPlaylistEnd
    \/ OnPlay
    \/ OnPausedNewSong
    \/ OnPausedStop
    \/ UnpackFails
    \/ Status
    \/ NextSong

Spec == Init /\ [][Next]_vars

----------------------------------------------------------------------------
(* The tracker with a player nobody touches: MPD plays its queue, each song *)
(* to its end, and then repeats it, goes on to another, or stops            *)

InitQuiet ==
    /\ Init
    /\ mpd_state = "play"

NextQuiet ==
    \/ Tick
    \/ SongEnd
    \/ NowPlayingStatus
    \/ NowPlayingSong
    \/ Track
    \/ RunPoll
    \/ WaitersWake
    \/ WaiterRead
    \/ OnSeek
    \/ OnReplay
    \/ OnNewSong
    \/ OnStop
    \/ OnPlaylistEnd
    \/ UnpackFails
    \/ Status
    \/ NextSong

SpecQuiet == InitQuiet /\ [][NextQuiet]_vars

----------------------------------------------------------------------------
(* The tracker with a listener who pauses, resumes and seeks, for songs     *)
(* whose record may lack the duration and status replies that may lack the  *)
(* elapsed time                                                             *)

InitListen ==
    /\ now = StartTime
    /\ mpd_state = "play"
    /\ mpd_song = 1
    /\ mpd_elapsed \in 0..Duration
    /\ ops = 0
    /\ pc = "now_playing"
    /\ branch = "none"
    /\ pending = FALSE
    /\ cursor = 0
    /\ wv = NoValues
    /\ done = {}
    /\ clean = FALSE
    /\ song = 0
    /\ history = <<>>
    /\ play_from_pos = 0
    /\ play_from_time = 0
    /\ expected_end = 0
    /\ event = "none"
    /\ verdict = "none"
    /\ trk_play_threshold = 0
    /\ trk_skip_threshold = 0
    /\ pt_input = <<>>
    /\ pt_total = 0
    /\ pt_appended = <<>>
    /\ beet = NoItem
    /\ album_of = [i \in Items |-> NoAlbum]
    /\ play_count = [i \in Items |-> Absent]
    /\ skip_count = [i \in Items |-> Absent]
    /\ last_played = [i \in Items |-> Absent]
    /\ album_last_played = [a \in Albums |-> Absent]
    /\ sessions = 0
    /\ increments = 0
    /\ mpd_duration \in {Duration, NoDuration}
    /\ mpd_has_elapsed \in BOOLEAN
    /\ queue = <<>>
    /\ queue_pos = 0
    /\ mpd_random = 0
    /\ opts_items = 0
    /\ opts_album = FALSE
    /\ status_song = 0
    /\ status_length = 0
    /\ upcoming_items = {}
    /\ to_queue = <<>>
    /\ commands = <<>>
    /\ lib_queries = <<>>
    /\ db_source = <<>>
    /\ db_delay = 0
    /\ db_read_at = <<>>
    /\ db_task = "none"
    /\ db_value = 0
    /\ db_yielded_last = TRUE
    /\ db_out = <<>>
    /\ dict_1 = <<>>
    /\ dict_2 = <<>>
    /\ ch_printed = {}
    /\ ch_result = FALSE

NextListen ==
    \/ Tick
    \/ UserPause
    \/ UserResume
    \/ UserSeek
    \/ SongEnd
    \/ NowPlayingStatus
    \/ NowPlayingSong
    \/ TrackFails
    \/ Track
    \/ RunPoll
    \/ WaitersWake
    \/ WaiterRead
    \/ ResultRaises
    \/ OnPause
    \/ OnSeek
    \/ OnReplay
    \/ OnNewSong
    \/ OnStop
    \/ OnPlaylistEnd
    \/ OnPlay
    \/ OnPausedNewSong
    \/ OnPausedStop
    \/ UnpackFails
    \/ Status
    \/ NextSong

SpecListen == InitListen /\ [][NextListen]_vars

----------------------------------------------------------------------------
(* play_time as a function of the list it is given *)

Intervals == { iv \in (0..MaxCoord) \X (0..MaxCoord) : iv[1] <= iv[2] }

IntervalLists == UNION { [1..n -> Intervals] : n \in 0..MaxLen }

InitPT ==
    /\ pt_input \in IntervalLists
    /\ history = pt_input
    /\ pt_total = -1
    /\ pc = "pt_call"
    /\ now = StartTime
    /\ mpd_state = "stop"
    /\ mpd_song = 1
    /\ mpd_elapsed = 0
    /\ ops = 0
    /\ branch = "none"
    /\ pending = FALSE
    /\ cursor = 0
    /\ wv = NoValues
    /\ done = {}
    /\ clean = FALSE
    /\ song = 1
    /\ play_from_pos = 0
    /\ play_from_time = 0
    /\ expected_end = 0
    /\ event = "none"
    /\ verdict = "none"
    /\ trk_play_threshold = run_play_threshold
    /\ trk_skip_threshold = run_skip_threshold
    /\ pt_appended = <<>>
    /\ beet = NoItem
    /\ album_of = [i \in Items |-> NoAlbum]
    /\ play_count = [i \in Items |-> Absent]
    /\ skip_count = [i \in Items |-> Absent]
    /\ last_played = [i \in Items |-> Absent]
    /\ album_last_played = [a \in Albums |-> Absent]
    /\ sessions = 0
    /\ increments = 0
    /\ mpd_duration = Duration
    /\ mpd_has_elapsed = TRUE
    /\ queue = <<>>
    /\ queue_pos = 0
    /\ mpd_random = 0
    /\ opts_items = 0
    /\ opts_album = FALSE
    /\ status_song = 0
    /\ status_length = 0
    /\ upcoming_items = {}
    /\ to_queue = <<>>
    /\ commands = <<>>
    /\ lib_queries = <<>>
    /\ db_source = <<>>
    /\ db_delay = 0
    /\ db_read_at = <<>>
    /\ db_task = "none"
    /\ db_value = 0
    /\ db_yielded_last = TRUE
    /\ db_out = <<>>
    /\ dict_1 = <<>>
    /\ dict_2 = <<>>
    /\ ch_printed = {}
    /\ ch_result = FALSE

PlayTimeCall ==
    /\ pc = "pt_call"
    /\ pt_total' = play_time(history)
    /\ history' = SortByStart(history)
    /\ pc' = "pt_done"
    /\ UNCHANGED <<mpdVars, raceVars, song, play_from_pos, play_from_time,
                   expected_end, event, verdict, pt_input, pt_appended,
                   thresholdVars, recordVars, utilVars, djVars, sinkVars>>

NextPT == PlayTimeCall

SpecPT == InitPT /\ [][NextPT]_vars

----------------------------------------------------------------------------
(* play_time before and after one more interval is appended to the history *)

InitAppend ==
    /\ InitPT
    /\ Len(pt_input) < MaxLen

AppendTo(iv) ==
    /\ pc = "pt_done"
    /\ pt_appended = <<>>
    /\ history' = Append(history, iv)
    /\ pt_appended' = Append(pt_appended, iv)
    /\ pc' = "pt_call"
    /\ UNCHANGED <<mpdVars, raceVars, song, play_from_pos, play_from_time,
                   expected_end, event, verdict, pt_input, pt_total,
                   thresholdVars, recordVars, utilVars, djVars, sinkVars>>

\* self.history.append((a, a))
AppendZeroLength == \E a \in 0..MaxCoord : AppendTo(<<a, a>>)

\* self.history.append(iv) for an iv the history holds already
AppendCopy == \E i \in DOMAIN history : AppendTo(history[i])

NextAppend ==
    \/ PlayTimeCall
    \/ AppendZeroLength
    \/ AppendCopy

SpecAppend == InitAppend /\ [][NextAppend]_vars

----------------------------------------------------------------------------
(* Tracker.status as a function of the history and the two thresholds *)

\* thresholds in hundredths of a second, in steps of half a second
Thresholds == { 50 * k : k \in 0..(2 * MaxThreshold) }

InitStatus ==
    /\ InitPT
    /\ Len(pt_input) <= 1

\* self.play_threshold = ...; self.skip_threshold = ... with any configuration
SetThresholds ==
    /\ pc = "pt_call"
    /\ trk_play_threshold' \in Thresholds
    /\ trk_skip_threshold' \in Thresholds
    /\ pc' = "st_call"
    /\ UNCHANGED <<mpdVars, raceVars, trackerVars, event, verdict, ptVars, sinkVars,
                   recordVars, utilVars, djVars>>

StatusCall ==
    /\ pc = "st_call"
    /\ verdict' = status(history)
    /\ pt_total' = play_time(history)
    /\ history' = SortByStart(history)
    /\ pc' = "st_done"
    /\ UNCHANGED <<mpdVars, raceVars, song, play_from_pos, play_from_time,
                   expected_end, event, pt_input, pt_appended, thresholdVars, recordVars, utilVars,
                   djVars, sinkVars>>

NextStatus ==
    \/ SetThresholds
    \/ StatusCall

SpecStatus == InitStatus /\ [][NextStatus]_vars

----------------------------------------------------------------------------
(* The loop of MPDTracker.run over a library: each session ends, after some  *)
(* time, with one of the three verdicts of Tracker.status                   *)

InitSink ==
    /\ now = StartTime
    /\ mpd_state = "play"
    /\ mpd_song = 1
    /\ mpd_elapsed = 0
    /\ ops = 0
    /\ pc = "now_playing"
    /\ branch = "none"
    /\ pending = FALSE
    /\ cursor = 0
    /\ wv = NoValues
    /\ done = {}
    /\ clean = FALSE
    /\ song = 0
    /\ history = <<>>
    /\ play_from_pos = 0
    /\ play_from_time = 0
    /\ expected_end = 0
    /\ event = "none"
    /\ verdict = "none"
    /\ trk_play_threshold = 0
    /\ trk_skip_threshold = 0
    /\ pt_input = <<>>
    /\ pt_total = 0
    /\ pt_appended = <<>>
    /\ beet = NoItem
    /\ album_of \in [Items -> Albums \cup {NoAlbum}]
    /\ play_count = [i \in Items |-> Absent]
    /\ skip_count = [i \in Items |-> Absent]
    /\ last_played = [i \in Items |-> Absent]
    /\ album_last_played = [a \in Albums |-> Absent]
    /\ sessions = 0
    /\ increments = 0
    /\ mpd_duration = Duration
    /\ mpd_has_elapsed = TRUE
    /\ queue = <<>>
    /\ queue_pos = 0
    /\ mpd_random = 0
    /\ opts_items = 0
    /\ opts_album = FALSE
    /\ status_song = 0
    /\ status_length = 0
    /\ upcoming_items = {}
    /\ to_queue = <<>>
    /\ commands = <<>>
    /\ lib_queries = <<>>
    /\ db_source = <<>>
    /\ db_delay = 0
    /\ db_read_at = <<>>
    /\ db_task = "none"
    /\ db_value = 0
    /\ db_yielded_last = TRUE
    /\ db_out = <<>>
    /\ dict_1 = <<>>
    /\ dict_2 = <<>>
    /\ ch_printed = {}
    /\ ch_result = FALSE

NextSink ==
    \/ LibraryLookup
    \/ TrackReturns
    \/ ApplyPlayed
    \/ ApplySkipped
    \/ ApplyNeither
    \/ ApplyFails

SpecSink == InitSink /\ [][NextSink]_vars

----------------------------------------------------------------------------
(* Properties *)

\* a notification round is over and every waiter of it tested the same MPD
\* state at the same clock reading, which is still the current one
RoundOver ==
    /\ pc = "wait"
    /\ cursor = 0
    /\ clean

NearEnd == Abs(now - expected_end) < Tol

\* C1: a session that ends because MPD was seen stopped, by the stop waiter or
\* by the status poll of Tracker.run, has the verdict neither.
C1_StoppedIsNeither ==
    (pc = "verdict" /\ event \in {"stop", "poll_stop"}) => verdict = "neither"

\* C2: a notification seen while playing, with MPD still playing the session's
\* song, makes replay return if now is within 1 s of expected_end and seek_to
\* return otherwise, the distance of exactly 1 s included.
C2_ReplayIffNearEnd ==
    (RoundOver /\ branch = "play" /\ mpd_state = "play" /\ mpd_song = song)
        => done = (IF NearEnd THEN {"replay"} ELSE {"seek"})

\* C3: a notification that finds MPD stopped, while playing or while paused,
\* makes playlist_end return if now is within 1 s of expected_end and stop
\* return otherwise.
C3_PlaylistEndIffNearEnd ==
    (RoundOver /\ mpd_state = "stop")
        => done = (IF NearEnd THEN {"playlist_end"} ELSE {"stop"})

\* C4: a notification that finds another song current, playing or paused,
\* makes new_song return and no other waiter.
C4_SongChangeIsNewSong ==
    (RoundOver /\ mpd_song # song /\ mpd_state \in {"play", "pause"})
        => done = {"new_song"}

\* C5: every notification makes exactly one waiter return, and the unpacking
\* of the done set never fails.
C5_ExactlyOneWaiter ==
    /\ pc # "crashed"
    /\ RoundOver => Cardinality(done) = 1

\* C6: a NewSong event in the pause branch ends the session with the coverage
\* it had when it was paused.
C6_PausedNewSongKeepsCoverage ==
    [][(pc = "wait" /\ branch = "pause" /\ done = {"new_song"} /\ pc' = "ended")
          => play_time(history') = play_time(history)]_vars

\* C7: the play time of the history is never negative and never more than the
\* duration of the song.
C7_PlayTimeWithinDuration ==
    /\ 0 <= play_time(history)
    /\ play_time(history) <= Duration

\* C8: every interval in the history has start <= end.
C8_IntervalsOrdered ==
    \A i \in DOMAIN history : history[i][1] <= history[i][2]

\* the measure of the union of the intervals: the unit cells [x, x+1) one of them covers
UnionMeasure(h) ==
    Cardinality({ x \in 0..(MaxCoord - 1) :
                    \E i \in DOMAIN h : h[i][1] <= x /\ x < h[i][2] })

\* C9: for every list of intervals with start <= end, play_time returns the
\* measure of the union of the intervals.
C9_PlayTimeIsUnionMeasure ==
    pc = "pt_done" => pt_total = UnionMeasure(pt_input)

\* three intervals given out of start order: the second touches the first from
\* the left, the third starts with the first and reaches beyond it
C9_Witness ==
    /\ pc = "pt_done"
    /\ Len(pt_input) = 3
    /\ pt_input[2][1] < pt_input[2][2]
    /\ pt_input[2][2] = pt_input[1][1]
    /\ pt_input[1][1] < pt_input[1][2]
    /\ pt_input[3][1] = pt_input[1][1]
    /\ pt_input[1][2] < pt_input[3][2]
    /\ pt_total = pt_input[3][2] - pt_input[2][1]

Reordered(h, p) == [i \in DOMAIN h |-> h[p[i]]]

RuleVerdict(coverage) ==
    IF coverage = 0 THEN "neither"
    ELSE IF coverage > trk_play_threshold THEN "played"
    ELSE IF coverage < trk_skip_threshold THEN "skipped"
    ELSE "neither"

C13_RunThresholds ==
    pc \in {"run", "wait", "ended", "verdict"} =>
        /\ trk_play_threshold = play_threshold(play_time_cfg, play_percent_cfg)
        /\ trk_skip_threshold = skip_threshold(skip_time_cfg, skip_percent_cfg)
        /\ trk_skip_threshold = skip_time_cfg * 100

\* C14: a session that was attached at position 0, saw no event while its
\* song played, and ends with playlist_end has a play time equal to the
\* duration and the verdict played.
C14_PlaylistEndFromZeroIsPlayed ==
    /\ [][(/\ pc = "wait"
           /\ branch = "play"
           /\ done = {"playlist_end"}
           /\ event = "none"
           /\ history = <<>>
           /\ play_from_pos = 0
           /\ pc' = "ended")
             => (history' = << <<0, Duration>> >> /\ play_time(history') = Duration)]_vars
    /\ []((pc = "verdict" /\ event = "playlist_end" /\ history = << <<0, Duration>> >>)
             => verdict = "played")

\* the song played from 0 to its end, the playlist ended, status was called
C14_Witness ==
    /\ pc = "verdict"
    /\ event = "playlist_end"
    /\ history = << <<0, Duration>> >>
    /\ play_from_pos = 0
    /\ now = play_from_time + Duration
    /\ verdict = "played"

\* the dispatch of MPDTracker.run acts on verdict v for an item of the library
Applies(v) ==
    /\ pc = "verdict"
    /\ verdict = v
    /\ beet # NoItem
    /\ pc' # pc

\* C15: on the verdict played the item's play_count goes up by exactly 1, from
\* 0 when it was absent, its last_played becomes the current time, which is
\* not before its previous last_played, and no skip_count changes.
C15_PlayedCountsAndStamps ==
    [][Applies("played") =>
          /\ play_count'[beet] = (IF play_count[beet] = Absent THEN 1
                                  ELSE play_count[beet] + 1)
          /\ last_played'[beet] = now
          /\ last_played[beet] # Absent => last_played[beet] <= last_played'[beet]
          /\ skip_count' = skip_count]_vars

\* an item was played for the second time, later than the first
C15_Witness ==
    /\ event = "set_played"
    /\ beet # NoItem
    /\ play_count[beet] = 2
    /\ last_played[beet] = now
    /\ now > StartTime
    /\ skip_count[beet] = Absent

\* C16: on the verdict skipped the item's skip_count goes up by exactly 1, from
\* 0 when it was absent, and no play_count, no last_played and no album's
\* last_played changes.
C16_SkippedCountsOnly ==
    [][Applies("skipped") =>
          /\ skip_count'[beet] = (IF skip_count[beet] = Absent THEN 1
                                  ELSE skip_count[beet] + 1)
          /\ UNCHANGED <<play_count, last_played, album_last_played>>]_vars

\* an item that was played before is skipped for the first time
C16_Witness ==
    /\ event = "set_skipped"
    /\ beet # NoItem
    /\ skip_count[beet] = 1
    /\ play_count[beet] = 1
    /\ last_played[beet] # Absent
    /\ last_played[beet] < now

\* C17: an album's last_played changes only in a step after which every item
\* of the album has a last_played, and then to the minimum of them; a played
\* verdict for an item of an album writes that minimum whenever every member
\* has a last_played, and leaves the album alone if a member has none.
C17_AlbumIsOldestMember ==
    [][\A a \in Albums :
          LET members == { last_played'[i] : i \in Members(a) }
              complete == Members(a) # {} /\ Absent \notin members
          IN  /\ album_last_played'[a] # album_last_played[a] => complete
              /\ ~complete => album_last_played'[a] = album_last_played[a]
              /\ (Applies("played") /\ album_of[beet] = a /\ complete)
                     => (/\ album_last_played'[a] \in members
                         /\ \A v \in members : album_last_played'[a] <= v)]_vars

\* the last unplayed item of an album of two was played after the other one:
\* the album is dated with the older of the two
C17_Witness ==
    /\ event = "set_played"
    /\ beet # NoItem
    /\ album_of[beet] # NoAlbum
    /\ Cardinality(Members(album_of[beet])) = 2
    /\ play_count[beet] = 1
    /\ album_last_played[album_of[beet]] # Absent
    /\ album_last_played[album_of[beet]] < last_played[beet]

\* C18: on the verdict neither nothing is written: every play_count,
\* skip_count and last_played, of items and of albums, is unchanged.
C18_NeitherWritesNothing ==
    [][(pc = "verdict" /\ verdict = "neither" /\ pc' # pc) => UNCHANGED storeVars]_vars

\* a session of an item that has counters ended with the verdict neither
C18_Witness ==
    /\ event = "neither"
    /\ pc = "now_playing"
    /\ beet # NoItem
    /\ play_count[beet] = 1
    /\ skip_count[beet] = 1

\* C19: when the song has no item in the library and the verdict is played or
\* skipped, nothing is written and the loop goes on to the next song.
C19_LibraryMissContinues ==
    [][(pc = "verdict" /\ beet = NoItem /\ verdict \in {"played", "skipped"} /\ pc' # pc)
          => (pc' = "now_playing" /\ UNCHANGED storeVars)]_vars

\* C20: a session is constructed only when no verdict waits to be applied,
\* and between two constructions the counters of the library go up by at
\* most 1 in total.
C20_AppliedBeforeNextSession ==
    /\ [][sessions' # sessions => (verdict = "none" /\ pc = "now_playing")]_vars
    /\ [](increments \in {0, 1})
    /\ []((verdict = "neither" /\ pc = "verdict") => increments = 0)

\* the third session is constructed after the first was played and the
\* second skipped
C20_Witness ==
    /\ pc = "track"
    /\ sessions = 3
    /\ increments = 0
    /\ verdict = "none"
    /\ Total(play_count, Items) = 1
    /\ Total(skip_count, Items) = 1

----------------------------------------------------------------------------
(* Records without duration, status replies without elapsed *)

\* C21: when the current song's record has no duration, constructing the
\* session succeeds: the tracker goes on to run the session with
\* play_threshold = play_time and skip_threshold = skip_time.
C21_NoDurationFallsBack ==
    [][(pc = "track" /\ mpd_duration = NoDuration /\ pc' # pc)
          => /\ pc' = "run"
             /\ trk_play_threshold' = play_time_cfg * 100
             /\ trk_skip_threshold' = skip_time_cfg * 100]_vars

\* C22: when the status reply of the pause, play or seek waiter lacks
\* elapsed, the tracker handles the event without forward progress
\* (play_from_pos keeps its value) and the tracker loop keeps running.
C22_NoElapsedKeepsRunning ==
    [][(/\ pc = "wait"
        /\ \E w \in {"pause", "seek", "play"} : done = {w} /\ wv[w] = NoElapsed
        /\ pc' # pc)
          => (pc' = "run" /\ play_from_pos' = play_from_pos)]_vars

----------------------------------------------------------------------------
(* The tracker started while MPD is stopped, with somebody who starts and   *)
(* stops the player                                                         *)

InitStart == Init /\ mpd_state = "stop"

NextStart ==
    \/ Tick
    \/ UserStop
    \/ UserPlay
    \/ SongEnd
    \/ NowPlayingStatus
    \/ NowPlayingWake
    \/ NowPlayingSong
    \/ Track
    \/ RunPoll
    \/ WaitersWake
    \/ WaiterRead
    \/ OnSeek
    \/ OnReplay
    \/ OnNewSong
    \/ OnStop
    \/ OnPlaylistEnd
    \/ UnpackFails
    \/ Status
    \/ NextSong

SpecStart == InitStart /\ [][NextStart]_vars

\* C27: Song.now_playing goes on to the current song, and a session is
\* constructed, only from a status read that shows a state other than stop;
\* a status read that shows stop leads to waiting for a player notification,
\* which leads to the next status read, and neither touches the session or
\* the verdict.
C27_WaitsWhileStopped ==
    /\ [][(pc' = "np_song" /\ pc # "np_song")
             => (pc = "now_playing" /\ mpd_state # "stop")]_vars
    /\ [][(pc' = "track" /\ pc # "track") => pc = "np_song"]_vars
    /\ [][(pc = "now_playing" /\ mpd_state = "stop" /\ pc' # pc)
             => (pc' = "np_wait" /\ UNCHANGED <<trackerVars, verdict, storeVars>>)]_vars
    /\ [][(pc = "np_wait" /\ pc' # pc)
             => (/\ pending
                 /\ pc' = "now_playing"
                 /\ UNCHANGED <<trackerVars, verdict, storeVars>>)]_vars

\* MPD was stopped when the tracker started, and a session is about to be
\* constructed for the song somebody started since
C27_Witness ==
    /\ pc = "track"
    /\ ops >= 1
    /\ mpd_state = "play"
    /\ song = mpd_song
    /\ history = <<>>
    /\ verdict = "none"

----------------------------------------------------------------------------
(* Replay and seek *)

\* C28: on a replay event in the play branch the session appends
\* (play_from_pos, duration) and ends; its verdict is computed from that
\* history; and every session the loop constructs starts from a history that
\* holds nothing but the part of the song MPD reports as elapsed.
C28_ReplayEndsSession ==
    /\ [][(pc = "wait" /\ branch = "play" /\ done = {"replay"} /\ pc' # pc)
             => /\ history' = Append(history, <<play_from_pos, Duration>>)
                /\ pc' = "ended"]_vars
    /\ [][(pc = "ended" /\ pc' # pc)
             => (pc' = "verdict" /\ verdict' = status(history))]_vars
    /\ [][(event = "replay" /\ event' # event)
             => (pc = "verdict" /\ pc' = "now_playing" /\ history' = <<>>)]_vars
    /\ [][(pc = "track" /\ pc' # pc)
             => \/ history' = <<>>
                \/ history' = << <<0, mpd_elapsed>> >>]_vars

\* a session ended by a replay has its verdict while MPD plays the same song
\* again
C28_Witness ==
    /\ pc = "verdict"
    /\ event = "replay"
    /\ verdict = "played"
    /\ history # <<>>
    /\ history[Len(history)][2] = Duration
    /\ mpd_state = "play"
    /\ mpd_song = song

\* one session of a song played from its start by a listener who does
\* nothing but seek
InitSeek == InitQuiet /\ mpd_elapsed = 0

NextSeek ==
    \/ Tick
    \/ UserSeek
    \/ NowPlayingStatus
    \/ NowPlayingSong
    \/ Track
    \/ RunPoll
    \/ WaitersWake
    \/ WaiterRead
    \/ OnSeek
    \/ OnReplay
    \/ UnpackFails
    \/ Status

SpecSeek == InitSeek /\ [][NextSeek]_vars

\* C29: on a seek event in the play branch the session appends
\* (play_from_pos, play_from_pos + (now - play_from_time)) with the values
\* from before the event, then takes the elapsed the seek waiter returned as
\* play_from_pos, now as play_from_time and now + duration - elapsed as
\* expected_end, and goes on with the loop of Tracker.run.
C29_SeekAppendsThenResets ==
    [][(/\ pc = "wait"
        /\ branch = "play"
        /\ done = {"seek"}
        /\ wv["seek"] # NoElapsed
        /\ pc' # pc)
          => /\ history' = Append(history,
                      <<play_from_pos, play_from_pos + (now - play_from_time)>>)
             /\ play_from_pos' = wv["seek"]
             /\ play_from_time' = now
             /\ expected_end' = now + Duration - wv["seek"]
             /\ pc' = "run"
             /\ verdict' = verdict]_vars

\* the listener jumped back after listening for a while, and the session
\* goes on from the new position
C29_Witness ==
    /\ pc = "run"
    /\ event = "seek"
    /\ ops >= 1
    /\ history # <<>>
    /\ history[Len(history)][1] < history[Len(history)][2]
    /\ play_from_pos < history[Len(history)][2]
    /\ play_from_time = now
    /\ expected_end = now + Duration - play_from_pos

----------------------------------------------------------------------------
(* The auto-queue of mpd_dj.py: MPDDjPlugin.run and MPDQueue.upcoming_items *)

MaxQueue == 3       \* entries of the MPD playlist before the auto-queue adds
MaxTarget == 3      \* opts.items, the number of items to maintain
MaxDjOps == 2       \* commands other clients send while the auto-queue runs

notDjVars == <<now, mpd_state, mpd_song, mpd_elapsed, branch, cursor, wv, done, clean,
               trackerVars, verdict, thresholdVars, ptVars, sinkVars, recordVars, utilVars>>

RangeOf(s) == { s[i] : i \in 1..Len(s) }

RECURSIVE SetToSeq(_)
SetToSeq(S) ==
    IF S = {} THEN <<>>
    ELSE LET m == CHOOSE x \in S : \A y \in S : x <= y
         IN  <<m>> \o SetToSeq(S \ {m})

\* itertools.islice(playlist, start, stop): the entries of index start..stop-1
\* that the playlist has
islice(s, start, stop) == SubSeq(s, start + 1, Min(stop, Len(s)))

\* lib.albums(query): every album of the library has at least one item
LibAlbums == { a \in Albums : Members(a) # {} }

\* ORDER BY RANDOM() LIMIT count over the rows S: count distinct rows, or all
\* of them when there are fewer, in any order
RandomSort(count, S) ==
    LET limit == IF count # 0 THEN count ELSE 1
        n == Min(limit, Cardinality(S))
    IN  { r \in [1..n -> S] : \A i, j \in 1..n : i # j => r[i] # r[j] }

\* get_items(lib, opts, args, num): album directories or item paths
get_items(num) ==
    IF opts_album THEN RandomSort(num, LibAlbums) ELSE RandomSort(num, Items)

\* the files MPD appends for add(uri): the file, or every file of the directory
FilesOf(uri) == IF opts_album THEN SetToSeq(Members(uri)) ELSE <<uri>>

RECURSIVE AddAll(_, _)
AddAll(q, uris) ==
    IF uris = <<>> THEN q
    ELSE AddAll(q \o FilesOf(Head(uris)), Tail(uris))

\* item.get_album().id / item.id of a path's item raises AttributeError on None
CountFails(paths) ==
    \E p \in RangeOf(paths) :
        \/ Lookup(p) = NoItem
        \/ opts_album /\ Lookup(p) # NoItem /\ album_of[Lookup(p)] = NoAlbum

\* the lib.items(path_query) queries of count_items for the first n paths
PathQueries(n) == [i \in 1..n |-> "path"]

\* the path at which count_items raises
FirstFailure(paths) ==
    CHOOSE k \in 1..Len(paths) :
        /\ CountFails(<<paths[k]>>)
        /\ \A m \in 1..(k - 1) : ~CountFails(<<paths[m]>>)

\* count_items(lib, opts, item_paths)
count_items(paths) ==
    IF opts_album THEN { album_of[Lookup(p)] : p \in RangeOf(paths) }
    ELSE { Lookup(p) : p \in RangeOf(paths) }

\* the paths upcoming_items returns from the status snapshot and the playlist
UpcomingPaths == islice(queue, status_song, status_length)

\* somebody appends a file to the playlist: a "playlist" notification
UserEnqueues ==
    /\ pc # "crashed"
    /\ ops < MaxDjOps
    /\ Len(queue) < MaxQueue
    /\ \E p \in Paths : queue' = Append(queue, p)
    /\ ops' = ops + 1
    /\ pending' = TRUE
    /\ UNCHANGED <<pc, event, queue_pos, mpd_random, opts_items, opts_album, status_song,
                   status_length, upcoming_items, to_queue, commands,
                   lib_queries>>
    /\ UNCHANGED <<now, mpd_state, mpd_song, mpd_elapsed, branch, cursor, wv, done, clean,
                   trackerVars, verdict, thresholdVars, ptVars, sinkVars, recordVars, utilVars>>

\* somebody clears the playlist: a "playlist" and a "player" notification
UserClears ==
    /\ pc # "crashed"
    /\ ops < MaxDjOps
    /\ queue # <<>>
    /\ queue' = <<>>
    /\ queue_pos' = 0
    /\ ops' = ops + 1
    /\ pending' = TRUE
    /\ UNCHANGED <<pc, event, mpd_random, opts_items, opts_album, status_song,
                   status_length, upcoming_items, to_queue, commands,
                   lib_queries>>
    /\ UNCHANGED <<now, mpd_state, mpd_song, mpd_elapsed, branch, cursor, wv, done, clean,
                   trackerVars, verdict, thresholdVars, ptVars, sinkVars, recordVars, utilVars>>

\* the player moves to the next entry, or stops after the last one; a stopped
\* MPD reports no "song", which status.get("song", 0) reads as 0
PlayerAdvances ==
    /\ pc # "crashed"
    /\ ops < MaxDjOps
    /\ queue # <<>>
    /\ queue_pos' = IF queue_pos + 1 < Len(queue) THEN queue_pos + 1 ELSE 0
    /\ ops' = ops + 1
    /\ pending' = TRUE
    /\ UNCHANGED <<pc, event, queue, mpd_random, opts_items, opts_album, status_song,
                   status_length, upcoming_items, to_queue, commands,
                   lib_queries>>
    /\ UNCHANGED <<now, mpd_state, mpd_song, mpd_elapsed, branch, cursor, wv, done, clean,
                   trackerVars, verdict, thresholdVars, ptVars, sinkVars, recordVars, utilVars>>

\* somebody switches random mode on: an "options" notification, which
\* idle(["playlist", "player"]) does not yield
UserRandom ==
    /\ pc # "crashed"
    /\ ops < MaxDjOps
    /\ mpd_random = 0
    /\ mpd_random' = 1
    /\ ops' = ops + 1
    /\ UNCHANGED <<pc, event, pending, queue, queue_pos, opts_items, opts_album,
                   status_song, status_length, upcoming_items, to_queue, commands,
                   lib_queries>>
    /\ UNCHANGED <<now, mpd_state, mpd_song, mpd_elapsed, branch, cursor, wv, done, clean,
                   trackerVars, verdict, thresholdVars, ptVars, sinkVars, recordVars, utilVars>>

\* a wake-up that issues no random(0)
DjWakeNoRandom ==
    /\ pc = "dj_idle"
    /\ pending
    /\ pending' = FALSE
    /\ commands' = <<>>
    /\ upcoming_items' = {}
    /\ lib_queries' = <<>>
    /\ to_queue' = <<>>
    /\ pc' = "dj_status"
    /\ UNCHANGED <<ops, event, queue, queue_pos, mpd_random, opts_items, opts_album,
                   status_song, status_length>>
    /\ UNCHANGED <<now, mpd_state, mpd_song, mpd_elapsed, branch, cursor, wv, done, clean,
                   trackerVars, verdict, thresholdVars, ptVars, sinkVars, recordVars, utilVars>>

\* async for _ in self.idle(["playlist", "player"]): self.random(0)
DjWake ==
    /\ pc = "dj_idle"
    /\ pending
    /\ pending' = FALSE
    /\ mpd_random' = 0
    /\ commands' = <<"random">>
    /\ upcoming_items' = {}
    /\ lib_queries' = <<>>
    /\ to_queue' = <<>>
    /\ pc' = "dj_status"
    /\ UNCHANGED <<ops, event, queue, queue_pos, opts_items, opts_album, status_song,
                   status_length>>
    /\ UNCHANGED <<now, mpd_state, mpd_song, mpd_elapsed, branch, cursor, wv, done, clean,
                   trackerVars, verdict, thresholdVars, ptVars, sinkVars, recordVars, utilVars>>

\* a status read that goes on to the playlist whatever its length
DjStatusNoSkip ==
    /\ pc = "dj_status"
    /\ status_song' = queue_pos
    /\ status_length' = Len(queue)
    /\ commands' = Append(commands, "status")
    /\ pc' = "dj_playlist"
    /\ UNCHANGED <<ops, event, pending, queue, queue_pos, mpd_random, opts_items,
                   opts_album, upcoming_items, to_queue, lib_queries>>
    /\ UNCHANGED <<now, mpd_state, mpd_song, mpd_elapsed, branch, cursor, wv, done, clean,
                   trackerVars, verdict, thresholdVars, ptVars, sinkVars, recordVars, utilVars>>

\* status = await self.status(); if int(status["playlistlength"]) == 0: continue
DjStatus ==
    /\ pc = "dj_status"
    /\ status_song' = queue_pos
    /\ status_length' = Len(queue)
    /\ commands' = Append(commands, "status")
    /\ pc' = IF Len(queue) = 0 THEN "dj_idle" ELSE "dj_playlist"
    /\ UNCHANGED <<ops, event, pending, queue, queue_pos, mpd_random, opts_items,
                   opts_album, upcoming_items, to_queue, lib_queries>>
    /\ UNCHANGED <<now, mpd_state, mpd_song, mpd_elapsed, branch, cursor, wv, done, clean,
                   trackerVars, verdict, thresholdVars, ptVars, sinkVars, recordVars, utilVars>>

\* await self.playlist(), then count_items raises on a path without item (or,
\* with --album, without album): MPDDjPlugin.run ends with AttributeError
DjCountFails ==
    /\ pc = "dj_playlist"
    /\ CountFails(UpcomingPaths)
    /\ commands' = Append(commands, "playlist")
    /\ lib_queries' = PathQueries(FirstFailure(UpcomingPaths))
    /\ pc' = "crashed"
    /\ event' = "AttributeError"
    /\ UNCHANGED <<ops, pending, queue, queue_pos, mpd_random, opts_items, opts_album,
                   status_song, status_length, upcoming_items, to_queue>>
    /\ UNCHANGED <<now, mpd_state, mpd_song, mpd_elapsed, branch, cursor, wv, done, clean,
                   trackerVars, verdict, thresholdVars, ptVars, sinkVars, recordVars, utilVars>>

\* an iteration that goes on to get_items when the deficit is 0
DjPlaylistOffByOne ==
    /\ pc = "dj_playlist"
    /\ Len(queue) <= MaxQueue
    /\ ~CountFails(UpcomingPaths)
    /\ upcoming_items' = count_items(UpcomingPaths)
    /\ LET deficit == opts_items - Cardinality(count_items(UpcomingPaths))
       IN  IF deficit < 0
           THEN /\ to_queue' = <<>>
                /\ queue' = queue
                /\ commands' = Append(commands, "playlist")
                /\ lib_queries' = PathQueries(Len(UpcomingPaths))
                /\ pending' = FALSE
           ELSE \E uris \in get_items(deficit) :
                /\ to_queue' = uris
                /\ queue' = AddAll(queue, uris)
                /\ commands' = Append(commands, "playlist")
                                  \o [i \in 1..Len(uris) |-> "add"]
                /\ lib_queries' = Append(PathQueries(Len(UpcomingPaths)), "random")
                /\ pending' = (Len(uris) > 0)
    /\ pc' = "dj_idle"
    /\ UNCHANGED <<ops, event, queue_pos, mpd_random, opts_items, opts_album,
                   status_song, status_length>>
    /\ UNCHANGED <<now, mpd_state, mpd_song, mpd_elapsed, branch, cursor, wv, done, clean,
                   trackerVars, verdict, thresholdVars, ptVars, sinkVars, recordVars, utilVars>>

\* await self.playlist(), return of upcoming_items, count_items, the deficit,
\* get_items and one add per uri; the adds change the playlist, which the
\* next call of upcoming_items is told
DjPlaylist ==
    /\ pc = "dj_playlist"
    /\ Len(queue) <= MaxQueue
    /\ ~CountFails(UpcomingPaths)
    /\ upcoming_items' = count_items(UpcomingPaths)
    /\ LET deficit == opts_items - Cardinality(count_items(UpcomingPaths))
       IN  IF deficit <= 0
           THEN /\ to_queue' = <<>>
                /\ queue' = queue
                /\ commands' = Append(commands, "playlist")
                /\ lib_queries' = PathQueries(Len(UpcomingPaths))
                /\ pending' = FALSE
           ELSE \E uris \in get_items(deficit) :
                /\ to_queue' = uris
                /\ queue' = AddAll(queue, uris)
                /\ commands' = Append(commands, "playlist")
                                  \o [i \in 1..Len(uris) |-> "add"]
                /\ lib_queries' = Append(PathQueries(Len(UpcomingPaths)), "random")
                /\ pending' = (Len(uris) > 0)
    /\ pc' = "dj_idle"
    /\ UNCHANGED <<ops, event, queue_pos, mpd_random, opts_items, opts_album,
                   status_song, status_length>>
    /\ UNCHANGED <<now, mpd_state, mpd_song, mpd_elapsed, branch, cursor, wv, done, clean,
                   trackerVars, verdict, thresholdVars, ptVars, sinkVars, recordVars, utilVars>>

InitDj ==
    /\ now = StartTime
    /\ mpd_state = "play"
    /\ mpd_song = 1
    /\ mpd_elapsed = 0
    /\ ops = 0
    /\ pc = "dj_idle"
    /\ branch = "none"
    /\ pending = FALSE
    /\ cursor = 0
    /\ wv = NoValues
    /\ done = {}
    /\ clean = FALSE
    /\ song = 0
    /\ history = <<>>
    /\ play_from_pos = 0
    /\ play_from_time = 0
    /\ expected_end = 0
    /\ event = "none"
    /\ verdict = "none"
    /\ trk_play_threshold = 0
    /\ trk_skip_threshold = 0
    /\ pt_input = <<>>
    /\ pt_total = 0
    /\ pt_appended = <<>>
    /\ beet = NoItem
    /\ album_of \in [Items -> Albums \cup {NoAlbum}]
    /\ play_count = [i \in Items |-> Absent]
    /\ skip_count = [i \in Items |-> Absent]
    /\ last_played = [i \in Items |-> Absent]
    /\ album_last_played = [a \in Albums |-> Absent]
    /\ sessions = 0
    /\ increments = 0
    /\ mpd_duration = Duration
    /\ mpd_has_elapsed = TRUE
    /\ queue = <<>>
    /\ queue_pos = 0
    /\ mpd_random = 1
    /\ opts_items \in 1..MaxTarget
    /\ opts_album \in BOOLEAN
    /\ status_song = 0
    /\ status_length = 0
    /\ upcoming_items = {}
    /\ to_queue = <<>>
    /\ commands = <<>>
    /\ lib_queries = <<>>
    /\ db_source = <<>>
    /\ db_delay = 0
    /\ db_read_at = <<>>
    /\ db_task = "none"
    /\ db_value = 0
    /\ db_yielded_last = TRUE
    /\ db_out = <<>>
    /\ dict_1 = <<>>
    /\ dict_2 = <<>>
    /\ ch_printed = {}
    /\ ch_result = FALSE

NextDj ==
    \/ UserEnqueues
    \/ UserClears
    \/ PlayerAdvances
    \/ UserRandom
    \/ DjWake
    \/ DjStatus
    \/ DjCountFails
    \/ DjPlaylist

SpecDj == InitDj /\ [][NextDj]_vars

----------------------------------------------------------------------------
(* Claims about the auto-queue *)

\* C23: a cycle with target N that finds U < N unique upcoming identities
\* issues exactly N - U adds.
C23_AddsExactlyDeficit ==
    [][(/\ pc = "dj_playlist"
        /\ pc' = "dj_idle"
        /\ Cardinality(upcoming_items') < opts_items)
          => Len(to_queue') = opts_items - Cardinality(upcoming_items')]_vars

\* C24: a notification on which the status read shows playlistlength = 0
\* leads to no add, for every target, and leaves the auto-queue waiting for
\* the next notification.
C24_EmptyPlaylistAddsNothing ==
    (status_length = 0 /\ "status" \in RangeOf(commands))
        => /\ pc = "dj_idle"
           /\ "add" \notin RangeOf(commands)
           /\ "playlist" \notin RangeOf(commands)
           /\ to_queue = <<>>

\* the playlist was found empty with the largest target
C24_Witness ==
    /\ pc = "dj_idle"
    /\ opts_items = MaxTarget
    /\ status_length = 0
    /\ commands = <<"random", "status">>
    /\ queue = <<>>

\* C25: in every cycle random(0) is issued, and it is issued before the
\* status and playlist reads of the cycle.
C25_RandomOffBeforeReads ==
    /\ pc \in {"dj_status", "dj_playlist"} => "random" \in RangeOf(commands)
    /\ \A i \in 1..Len(commands) :
           commands[i] \in {"status", "playlist"}
               => \E j \in 1..(i - 1) : commands[j] = "random"

\* a cycle that read status and playlist and added an item
C25_Witness ==
    /\ pc = "dj_idle"
    /\ Len(commands) >= 4
    /\ commands[2] = "status"
    /\ commands[3] = "playlist"
    /\ commands[4] = "add"

\* C26: a path of the upcoming part of the playlist without item in the
\* library contributes no identity, and the cycle goes on to the next
\* notification.
C26_LookupMissContinues ==
    [][(/\ pc = "dj_playlist"
        /\ \E p \in RangeOf(UpcomingPaths) : Lookup(p) = NoItem
        /\ pc' # pc)
          => /\ pc' = "dj_idle"
             /\ NoItem \notin upcoming_items']_vars

----------------------------------------------------------------------------
(* One session of a song played from its start by a listener who pauses,    *)
(* resumes and seeks                                                        *)

NextSession ==
    \/ Tick
    \/ UserPause
    \/ UserResume
    \/ UserSeek
    \/ NowPlayingStatus
    \/ NowPlayingSong
    \/ Track
    \/ RunPoll
    \/ WaitersWake
    \/ WaiterRead
    \/ OnPause
    \/ OnSeek
    \/ OnReplay
    \/ OnPlay
    \/ UnpackFails
    \/ Status

SpecSession == InitSeek /\ [][NextSession]_vars

InSession == pc \in {"run", "wait", "ended", "verdict"}

\* C31: while a session exists, expected_end = play_from_time + duration -
\* play_from_pos; and the three values of a session change only in the
\* handling of a resume or of a seek, until the session is dropped for the
\* next one.
C31_ExpectedEndFromTriple ==
    /\ [](InSession => expected_end = play_from_time + Duration - play_from_pos)
    /\ [][(/\ InSession
           /\ <<play_from_pos, play_from_time, expected_end>>'
                 # <<play_from_pos, play_from_time, expected_end>>)
             => \/ pc = "wait" /\ pc' = "run" /\ event' \in {"play", "seek"}
                \/ pc = "verdict" /\ pc' = "now_playing"]_vars

\* the listener paused at 1 s and resumed a second later
C31_Witness ==
    /\ pc = "run"
    /\ event = "play"
    /\ play_from_pos = 1
    /\ play_from_time = now
    /\ now = StartTime + 2
    /\ expected_end = now + Duration - 1

\* C32: within a session, the handling of an event other than a stop that
\* clears the history leaves play_time() at least as large as it was.
C32_PlayTimeNeverDecreases ==
    [][(pc = "wait" /\ pc' \in {"run", "ended"} /\ history' # <<>>)
          => play_time(history') >= play_time(history)]_vars

\* C33: the construction of a session leaves the history [(0, elapsed)]
\* when the status reply has an elapsed above 0 and empty when the reply has
\* no elapsed or has 0, and play_from_pos at that elapsed (0 when absent).
C33_HistorySeededFromElapsed ==
    [][(pc = "track" /\ pc' = "run")
          => IF mpd_state # "stop" /\ mpd_has_elapsed /\ mpd_elapsed > 0
             THEN /\ history' = << <<0, mpd_elapsed>> >>
                  /\ play_from_pos' = mpd_elapsed
             ELSE /\ history' = <<>>
                  /\ play_from_pos' = 0]_vars

\* a session constructed two seconds into the song
C33_Witness ==
    /\ pc = "run"
    /\ event = "none"
    /\ mpd_state = "play"
    /\ mpd_elapsed = 2
    /\ history = << <<0, 2>> >>
    /\ play_from_pos = 2
    /\ play_from_time = now

\* C34: when MPD has gone on to another song while no waiter was subscribed,
\* the status poll at the top of the loop of Tracker.run ends the session of
\* the old song, without another notification.
C34_SongChangeSeenAtPoll ==
    [][(/\ pc = "run"
        /\ event # "none"
        /\ mpd_state = "play"
        /\ mpd_song # song
        /\ pc' # pc)
          => pc' = "ended"]_vars

----------------------------------------------------------------------------
(* Further claims about the auto-queue *)

InitDjConnected ==
    /\ now = StartTime
    /\ mpd_state = "play"
    /\ mpd_song = 1
    /\ mpd_elapsed = 0
    /\ ops = 0
    /\ pc = "dj_idle"
    /\ branch = "none"
    /\ pending = FALSE
    /\ cursor = 0
    /\ wv = NoValues
    /\ done = {}
    /\ clean = FALSE
    /\ song = 0
    /\ history = <<>>
    /\ play_from_pos = 0
    /\ play_from_time = 0
    /\ expected_end = 0
    /\ event = "none"
    /\ verdict = "none"
    /\ trk_play_threshold = 0
    /\ trk_skip_threshold = 0
    /\ pt_input = <<>>
    /\ pt_total = 0
    /\ pt_appended = <<>>
    /\ beet = NoItem
    /\ album_of \in [Items -> Albums \cup {NoAlbum}]
    /\ play_count = [i \in Items |-> Absent]
    /\ skip_count = [i \in Items |-> Absent]
    /\ last_played = [i \in Items |-> Absent]
    /\ album_last_played = [a \in Albums |-> Absent]
    /\ sessions = 0
    /\ increments = 0
    /\ mpd_duration = Duration
    /\ mpd_has_elapsed = TRUE
    /\ queue \in { <<p>> : p \in Paths }
    /\ queue_pos = 0
    /\ mpd_random = 1
    /\ opts_items \in 1..MaxTarget
    /\ opts_album \in BOOLEAN
    /\ status_song = 0
    /\ status_length = 0
    /\ upcoming_items = {}
    /\ to_queue = <<>>
    /\ commands = <<>>
    /\ lib_queries = <<>>
    /\ db_source = <<>>
    /\ db_delay = 0
    /\ db_read_at = <<>>
    /\ db_task = "none"
    /\ db_value = 0
    /\ db_yielded_last = TRUE
    /\ db_out = <<>>
    /\ dict_1 = <<>>
    /\ dict_2 = <<>>
    /\ ch_printed = {}
    /\ ch_result = FALSE

SpecDjConnected ==
    /\ InitDjConnected
    /\ [][NextDj]_vars
    /\ WF_vars(DjWake)
    /\ WF_vars(DjStatus)
    /\ WF_vars(DjCountFails)
    /\ WF_vars(DjPlaylist)

\* C36: after connecting to an MPD whose playlist is not empty and has fewer
\* than N unique upcoming identities, the auto-queue eventually issues an add
\* even when no playlist or player notification ever arrives: on every
\* behaviour either a notification arrives or an add is issued.
C36_AddsWithoutNotification ==
    (/\ queue # <<>>
     /\ ~CountFails(queue)
     /\ Cardinality(count_items(queue)) < opts_items)
        => <>(pending \/ "add" \in RangeOf(commands))

\* neither plugin is running: the state around a call of a helper function
InitIdle ==
    /\ pt_input = <<>>
    /\ history = <<>>
    /\ pt_total = -1
    /\ mpd_state = "stop"
    /\ mpd_song = 1
    /\ mpd_elapsed = 0
    /\ ops = 0
    /\ branch = "none"
    /\ pending = FALSE
    /\ cursor = 0
    /\ wv = NoValues
    /\ done = {}
    /\ clean = FALSE
    /\ song = 1
    /\ play_from_pos = 0
    /\ play_from_time = 0
    /\ expected_end = 0
    /\ event = "none"
    /\ verdict = "none"
    /\ trk_play_threshold = run_play_threshold
    /\ trk_skip_threshold = run_skip_threshold
    /\ pt_appended = <<>>
    /\ beet = NoItem
    /\ album_of = [i \in Items |-> NoAlbum]
    /\ play_count = [i \in Items |-> Absent]
    /\ skip_count = [i \in Items |-> Absent]
    /\ last_played = [i \in Items |-> Absent]
    /\ album_last_played = [a \in Albums |-> Absent]
    /\ sessions = 0
    /\ increments = 0
    /\ mpd_duration = Duration
    /\ mpd_has_elapsed = TRUE
    /\ queue = <<>>
    /\ queue_pos = 0
    /\ mpd_random = 0
    /\ opts_items = 0
    /\ opts_album = FALSE
    /\ status_song = 0
    /\ status_length = 0
    /\ upcoming_items = {}
    /\ to_queue = <<>>
    /\ commands = <<>>
    /\ lib_queries = <<>>
    /\ db_read_at = <<>>
    /\ db_task = "none"
    /\ db_value = 0
    /\ db_yielded_last = TRUE
    /\ db_out = <<>>
    /\ ch_printed = {}
    /\ ch_result = FALSE

\* ---------------------------------------------------------------------------
\* mpd_stats.py: changes(dict_1, dict_2)
\* ---------------------------------------------------------------------------

NKeys == 2
NVals == 2
None == 0

\* the dicts with keys in 1..NKeys and values in 1..NVals
Dicts == UNION { [ks -> 1..NVals] : ks \in SUBSET (1..NKeys) }

\* the lines the three loops print, as <<key, old, new>>, and the value
\* returned: dict_1 == dict_2, the same keys with the same values
changes(d1, d2) ==
    LET dict_1_keys == DOMAIN d1
        dict_2_keys == DOMAIN d2
        deleted_keys == dict_1_keys \ dict_2_keys
        common_keys == dict_1_keys \cap dict_2_keys
        added_keys == dict_2_keys \ dict_2_keys
    IN [printed |->
            { <<k, d1[k], None>> : k \in deleted_keys }
            \cup { <<k, d1[k], d2[k]>> : k \in { c \in common_keys : d1[c] # d2[c] } }
            \cup { <<k, None, d2[k]>> : k \in added_keys },
        result |-> /\ dict_1_keys = dict_2_keys
                   /\ \A k \in dict_1_keys : d1[k] = d2[k]]

InitChanges ==
    /\ InitIdle
    /\ pc = "ch_call"
    /\ now = StartTime
    /\ dict_1 \in Dicts
    /\ dict_2 \in Dicts
    /\ db_source = <<>>
    /\ db_delay = 0

ChangesCall ==
    /\ pc = "ch_call"
    /\ ch_printed' = changes(dict_1, dict_2).printed
    /\ ch_result' = changes(dict_1, dict_2).result
    /\ pc' = "ch_done"
    /\ UNCHANGED <<dict_1, dict_2, dbVars>>
    /\ UNCHANGED <<mpdVars, raceVars, trackerVars, event, verdict, thresholdVars, ptVars,
                   sinkVars, recordVars, djVars>>

SpecChanges == InitChanges /\ [][ChangesCall]_vars

\* C38: changes reports as added exactly the keys of dict_2 that are not in
\* dict_1, each as None -> dict_2[k], and returns True exactly when the two
\* maps are equal.
C38_AddedKeysReported ==
    pc = "ch_done" =>
        /\ { line \in ch_printed : line[2] = None }
              = { <<k, None, dict_2[k]>> : k \in (DOMAIN dict_2) \ (DOMAIN dict_1) }
        /\ ch_result = (dict_1 = dict_2)

\* ---------------------------------------------------------------------------
\* beetsplug/mpd_utils/utils.py: debounce(source, delay)
\* ---------------------------------------------------------------------------

MaxSource == 3
MaxItem == 2
MaxDelay == 2

\* what an AsyncIterable can yield before it ends
Sources == UNION { [1..n -> 1..MaxItem] : n \in 0..MaxSource }

\* the timer task holds the item read last; only debounce has a reference to it
TimerDone == now >= db_read_at[Len(db_read_at)] + db_delay

InitDebounce ==
    /\ InitIdle
    /\ pc = "db_pull"
    /\ now = StartTime
    /\ db_source \in Sources
    /\ db_delay \in 0..MaxDelay
    /\ dict_1 = <<>>
    /\ dict_2 = <<>>

\* asyncio.sleep and the source take time
DebounceTick ==
    /\ pc \in {"db_pull", "db_timer", "db_yielded"}
    /\ now < MaxTime
    /\ now' = now + 1
    /\ UNCHANGED <<pc, dbVars, chVars>>
    /\ UNCHANGED <<mpd_state, mpd_song, mpd_elapsed, ops, raceVars, trackerVars, event,
                   verdict, thresholdVars, ptVars, sinkVars, recordVars, djVars>>

\* the mutant of DebouncePull: the next item is read while the timer runs
DebouncePullEager ==
    /\ pc \in {"db_pull", "db_timer"}
    /\ Len(db_read_at) < Len(db_source)
    /\ db_yielded_last' = FALSE
    /\ db_task' = "pending"
    /\ db_value' = db_source[Len(db_read_at) + 1]
    /\ db_read_at' = Append(db_read_at, now)
    /\ pc' = "db_timer"
    /\ UNCHANGED <<db_source, db_delay, db_out, chVars>>
    /\ UNCHANGED <<mpdVars, raceVars, trackerVars, event, verdict, thresholdVars, ptVars,
                   sinkVars, recordVars, djVars>>

\* async for item in source: the loop asks the source for its next item only
\* when it is back at the top; a task still pending there is cancelled and the
\* item it held is lost; then the timer of the new item is created
DebouncePull ==
    /\ pc = "db_pull"
    /\ Len(db_read_at) < Len(db_source)
    /\ db_yielded_last' = FALSE
    /\ db_task' = "pending"
    /\ db_value' = db_source[Len(db_read_at) + 1]
    /\ db_read_at' = Append(db_read_at, now)
    /\ pc' = "db_timer"
    /\ UNCHANGED <<db_source, db_delay, db_out, chVars>>
    /\ UNCHANGED <<mpdVars, raceVars, trackerVars, event, verdict, thresholdVars, ptVars,
                   sinkVars, recordVars, djVars>>

\* value = await task; yield value
DebounceTimer ==
    /\ pc = "db_timer"
    /\ db_task = "pending"
    /\ TimerDone
    /\ db_out' = Append(db_out, <<db_value, now>>)
    /\ pc' = "db_yielded"
    /\ UNCHANGED <<db_source, db_delay, db_read_at, db_task, db_value, db_yielded_last,
                   chVars>>
    /\ UNCHANGED <<mpdVars, raceVars, trackerVars, event, verdict, thresholdVars, ptVars,
                   sinkVars, recordVars, djVars>>

\* the consumer asks for the next value: yielded_last = True; task = None
DebounceResume ==
    /\ pc = "db_yielded"
    /\ db_yielded_last' = TRUE
    /\ db_task' = "none"
    /\ pc' = "db_pull"
    /\ UNCHANGED <<db_source, db_delay, db_read_at, db_value, db_out, chVars>>
    /\ UNCHANGED <<mpdVars, raceVars, trackerVars, event, verdict, thresholdVars, ptVars,
                   sinkVars, recordVars, djVars>>

\* the source is exhausted: a task that is still pending and was not yielded
\* is awaited and its item yielded, then the generator ends
DebounceExhausted ==
    /\ pc = "db_pull"
    /\ Len(db_read_at) = Len(db_source)
    /\ LET held == db_task = "pending" /\ ~db_yielded_last
       IN /\ held => TimerDone
          /\ db_out' = IF held THEN Append(db_out, <<db_value, now>>) ELSE db_out
    /\ pc' = "db_finished"
    /\ UNCHANGED <<db_source, db_delay, db_read_at, db_task, db_value, db_yielded_last,
                   chVars>>
    /\ UNCHANGED <<mpdVars, raceVars, trackerVars, event, verdict, thresholdVars, ptVars,
                   sinkVars, recordVars, djVars>>

NextDebounce ==
    \/ DebounceTick
    \/ DebouncePull
    \/ DebounceTimer
    \/ DebounceResume
    \/ DebounceExhausted

SpecDebounce == InitDebounce /\ [][NextDebounce]_vars

====
